---- MODULE Spec2Model ----
(***************************************************************************)
(* Model of the VCP pattern-evaluation engine of scanner_core.py:          *)
(*   apply_gap_reset_logic, check_vcp_criteria, diagnose_single_stock,     *)
(*   scan_market and fetch_and_diagnose.                                   *)
(*                                                                         *)
(* Numbers.  Prices and volumes are integers; every quotient the code      *)
(* computes (gap size, range percentage, moving averages) is kept as an    *)
(* exact rational [num, den] with den > 0 and compared by cross            *)
(* multiplication.  On integer prices the binary64 results of the code's   *)
(* divisions and comparisons order as the exact values do; the one place   *)
(* where rounding changes a result is the product gap_size * 100 under     *)
(* math.ceil, which ceil_pct models.                                       *)
(*                                                                         *)
(* Text.  A string is a sequence of one-character strings, so that         *)
(* strptime, strftime, upper, strip and endswith can be computed.          *)
(*                                                                         *)
(* A price frame (DataFrame) is a sequence of bars                         *)
(*   [Date, Open, Close, Volume, Valid]                                    *)
(* Date is a calendar date [y, m, d]; Valid = FALSE stands for a row with  *)
(* a NaN in some column (the row dropna removes).  High and Low are never  *)
(* read by the evaluation and are left out.                                *)
(***************************************************************************)
EXTENDS Integers, Sequences, FiniteSets, TLC

VARIABLES
    \* ---- pure evaluation of one frame
    df,             \* the frame handed to the evaluators
    epc,            \* "input", "gap", "checked", "evaluated"
    gr,             \* result of apply_gap_reset_logic(df.tail(10))
    ff,             \* result of check_vcp_criteria(df)
    ex,             \* result of diagnose_single_stock(df, symbol)
    \* ---- scan_market
    target_date_str,\* the date token (<<>> when absent)
    spc,            \* position in scan_market
    target_date,    \* resolved date, NoDate before it is resolved
    formatted_date, \* strftime of target_date
    bi,             \* loop variable i of the batch loop (1-based start)
    data,           \* frame returned by yf.download for the current batch
    si,             \* position of the symbol loop inside the batch
    valid_symbols,  \* accumulated result list
    sret,           \* returned pair, <<>> before the return
    events,         \* history: fetches, symbol loops and pauses, in order
    served,         \* history: what the provider held for each processed symbol
    \* ---- fetch_and_diagnose
    symbol_input,   \* argument symbol_input
    date_str,       \* argument date_str
    dpc,            \* position in fetch_and_diagnose
    test_symbol,    \* identifier of the last download
    ddf,            \* provider response of the last download
    queries,        \* history: identifiers downloaded, in order
    answers,        \* history: "empty" | "data" per download
    dret            \* returned triple, <<>> before the return

evalVars == <<df, epc, gr, ff, ex>>
scanVars == <<target_date_str, spc, target_date, formatted_date, bi, data, si,
              valid_symbols, sret, events, served>>
diagVars == <<symbol_input, date_str, dpc, test_symbol, ddf, queries, answers, dret>>
vars == <<evalVars, scanVars, diagVars>>

----------------------------------------------------------------------------
(* Program constants (scanner_core.py lines 13-16 and the literals of the   *)
(* evaluators).                                                             *)

VCP_LOOKBACK_DAYS == 10
DEFAULT_TIGHTNESS == [num |-> 35, den |-> 1000]
GAP_THRESHOLD == [num |-> 4, den |-> 100]
MIN_VOLUME_AVG == 500000
MIN_BARS == 65
SMA_LENGTH == 60
SMA_BACK == 5
MIN_EFFECTIVE == 3
VOL_SHORT == 20
VOL_LONG == 60

(* Bounds of the model.                                                     *)
\* frames have at most MIN_BARS + ExtraBars bars
ExtraBars == 1
\* batch_size is 200 in scan_market; the model scans a small universe
batch_size == 2
\* number of tickers get_tw_stock_list returns
NumTickers == 3

----------------------------------------------------------------------------
(* Arithmetic                                                               *)

Abs(x) == IF x < 0 THEN -x ELSE x
Max2(a, b) == IF a >= b THEN a ELSE b
Min2(a, b) == IF a <= b THEN a ELSE b

\* exact rationals with positive denominators
Rat(n, d) == [num |-> n, den |-> d]
RatGT(a, b) == a.num * b.den > b.num * a.den
RatGE(a, b) == a.num * b.den >= b.num * a.den
RatLT(a, b) == RatGT(b, a)
RatLE(a, b) == RatGE(b, a)
RatEQ(a, b) == a.num * b.den = b.num * a.den

\* The whole numbers k <= 100 for which the binary64 product (k / 100) * 100
\* is greater than k (0.07 * 100 is 7.000000000000001).
Binary64AboveWhole == {7, 14, 28, 55, 56}

\* math.ceil(q * 100) / 100.0 for 0 <= q <= 1: the exact ceiling, except
\* that a q of exactly k percent, k one of the numbers above, is multiplied
\* to a float just above k and rounded up to k + 1.
ceil_pct(q) ==
    LET exact == (q.num * 100 + q.den - 1) \div q.den
        whole == (q.num * 100) % q.den = 0
    IN  Rat(IF whole /\ exact \in Binary64AboveWhole THEN exact + 1 ELSE exact, 100)

----------------------------------------------------------------------------
(* Calendar and text                                                        *)

NoDate == [y |-> 0, m |-> 0, d |-> 0]
MkDate(y, m, d) == [y |-> y, m |-> m, d |-> d]

IsLeap(y) == (y % 4 = 0 /\ y % 100 # 0) \/ y % 400 = 0

DaysInMonth(y, m) ==
    IF m = 2 THEN (IF IsLeap(y) THEN 29 ELSE 28)
    ELSE IF m \in {4, 6, 9, 11} THEN 30 ELSE 31

PrevDay(dt) ==
    IF dt.d > 1 THEN MkDate(dt.y, dt.m, dt.d - 1)
    ELSE IF dt.m > 1 THEN MkDate(dt.y, dt.m - 1, DaysInMonth(dt.y, dt.m - 1))
    ELSE MkDate(dt.y - 1, 12, 31)

\* the date k days before dt, a month at a time
RECURSIVE DaysBefore(_, _)
DaysBefore(dt, k) ==
    IF k < dt.d THEN MkDate(dt.y, dt.m, dt.d - k)
    ELSE DaysBefore(PrevDay(MkDate(dt.y, dt.m, 1)), k - dt.d)

DateLT(a, b) ==
    \/ a.y < b.y
    \/ a.y = b.y /\ a.m < b.m
    \/ a.y = b.y /\ a.m = b.m /\ a.d < b.d

Digits == <<"0", "1", "2", "3", "4", "5", "6", "7", "8", "9">>
IsDigit(c) == \E k \in 1..10 : Digits[k] = c
DigitVal(c) == (CHOOSE k \in 1..10 : Digits[k] = c) - 1
DigitChr(n) == Digits[n + 1]

\* zero-padded decimal text of n on w characters
RECURSIVE Pad(_, _)
Pad(n, w) == IF w = 0 THEN <<>> ELSE Pad(n \div 10, w - 1) \o <<DigitChr(n % 10)>>

\* (variant: the format '%Y%m%d')
strftime_compact(dt) == Pad(dt.y, 4) \o Pad(dt.m, 2) \o Pad(dt.d, 2)

\* datetime.strftime('%Y-%m-%d')
strftime(dt) == Pad(dt.y, 4) \o <<"-">> \o Pad(dt.m, 2) \o <<"-">> \o Pad(dt.d, 2)

\* datetime.strptime(s, "%y%m%d") on a six-character token: the record
\* [ok, date]; ok = FALSE is the ValueError the call raises.  %y maps 00..68
\* to 2000..2068 and 69..99 to 1969..1999.
strptime(s) ==
    IF Len(s) # 6 \/ \E k \in 1..Len(s) : ~IsDigit(s[k])
    THEN [ok |-> FALSE, date |-> NoDate]
    ELSE LET yy == DigitVal(s[1]) * 10 + DigitVal(s[2])
             mm == DigitVal(s[3]) * 10 + DigitVal(s[4])
             dd == DigitVal(s[5]) * 10 + DigitVal(s[6])
             y  == IF yy <= 68 THEN 2000 + yy ELSE 1900 + yy
         IN  IF mm \in 1..12 /\ dd >= 1 /\ dd <= DaysInMonth(y, mm)
             THEN [ok |-> TRUE, date |-> MkDate(y, mm, dd)]
             ELSE [ok |-> FALSE, date |-> NoDate]

----------------------------------------------------------------------------
(* Frames                                                                   *)

Bar(dt, o, c, v, ok) == [Date |-> dt, Open |-> o, Close |-> c, Volume |-> v, Valid |-> ok]

\* DataFrame.dropna
dropna(f) == SelectSeq(f, LAMBDA b : b.Valid)

\* DataFrame.tail(k)
tail(f, k) == SubSeq(f, Max2(1, Len(f) - k + 1), Len(f))

\* DataFrame.sort_index: stable insertion sort on the dates
RECURSIVE insert_by_date(_, _)
insert_by_date(s, b) ==
    IF s = <<>> THEN <<b>>
    ELSE IF DateLT(b.Date, s[Len(s)].Date)
         THEN Append(insert_by_date(SubSeq(s, 1, Len(s) - 1), b), s[Len(s)])
         ELSE Append(s, b)

RECURSIVE sort_index(_)
sort_index(f) ==
    IF f = <<>> THEN <<>>
    ELSE insert_by_date(sort_index(SubSeq(f, 1, Len(f) - 1)), f[Len(f)])

Closes(f) == [k \in 1..Len(f) |-> f[k].Close]

\* s[lo] + ... + s[hi], by halves
RECURSIVE SeqSum(_, _, _)
SeqSum(s, lo, hi) ==
    IF lo > hi THEN 0
    ELSE IF lo = hi THEN s[lo]
    ELSE LET mid == (lo + hi) \div 2
         IN  SeqSum(s, lo, mid) + SeqSum(s, mid + 1, hi)

RECURSIVE SeqMax(_, _)
SeqMax(s, k) == IF k = 1 THEN s[1] ELSE Max2(s[k], SeqMax(s, k - 1))

RECURSIVE SeqMin(_, _)
SeqMin(s, k) == IF k = 1 THEN s[1] ELSE Min2(s[k], SeqMin(s, k - 1))

\* ta.sma(close, length=60) at (1-based) position k: the mean of the 60
\* closes ending at k; positions before the 60th hold NaN.
sma_isna(f, k) == k < SMA_LENGTH
sma(f, k) == Rat(SeqSum(Closes(f), k - SMA_LENGTH + 1, k), SMA_LENGTH)

\* Series.tail(w).mean() of the volume column
vol_mean(f, w) ==
    LET lo == Max2(1, Len(f) - w + 1)
    IN  Rat(SeqSum([k \in 1..Len(f) |-> f[k].Volume], lo, Len(f)), Len(f) - lo + 1)

----------------------------------------------------------------------------
(* apply_gap_reset_logic                                                    *)

\* The for loop of lines 66-82, entered at (1-based) position i and walking
\* towards the oldest bar; position 1 is never examined.  reset_idx = 0 is
\* the code's -1 (nothing found).
\* (variant: the oldest qualifying gap wins)
RECURSIVE gap_scan_oldest(_, _)
gap_scan_oldest(s, i) ==
    IF i < 2 THEN [reset_idx |-> 0, gap_size |-> Rat(0, 1)]
    ELSE LET older == gap_scan_oldest(s, i - 1)
             close_prev == s[i - 1].Close
             current_gap == Rat(Abs(s[i].Open - close_prev), close_prev)
         IN  IF older.reset_idx # 0 THEN older
             ELSE IF close_prev # 0 /\ RatGT(current_gap, GAP_THRESHOLD)
                  THEN [reset_idx |-> i, gap_size |-> current_gap]
                  ELSE older

RECURSIVE gap_scan(_, _)
gap_scan(s, i) ==
    IF i < 2 THEN [reset_idx |-> 0, gap_size |-> Rat(0, 1)]
    ELSE LET open_today == s[i].Open
             close_prev == s[i - 1].Close
         IN  IF close_prev = 0 THEN gap_scan(s, i - 1)
             ELSE LET current_gap == Rat(Abs(open_today - close_prev), close_prev)
                  IN  IF RatGT(current_gap, GAP_THRESHOLD)
                      THEN [reset_idx |-> i, gap_size |-> current_gap]
                      ELSE gap_scan(s, i - 1)

\* Returns (new_series, is_reset, cutoff date text, gap_size); the date is
\* <<>> where the code returns None.
apply_gap_reset_logic(df_slice) ==
    LET s == sort_index(df_slice)
        r == gap_scan(s, Len(s))
    IN  IF r.reset_idx # 0
        THEN [closes |-> SubSeq(Closes(s), r.reset_idx, Len(s)),
              is_reset |-> TRUE,
              date |-> strftime(s[r.reset_idx].Date),
              gap_size |-> r.gap_size]
        ELSE [closes |-> Closes(s), is_reset |-> FALSE, date |-> <<>>,
              gap_size |-> Rat(0, 1)]

----------------------------------------------------------------------------
(* check_vcp_criteria (fail-fast)                                           *)

\* Series.iloc[-k] of a series of n entries, as a 1-based position
iloc_neg(n, k) == n - k + 1

\* Lines 105-110: "ok", or the return that ends the evaluation.
check_trend(f) ==
    LET n == Len(f)
        now == iloc_neg(n, 1)
        prev == iloc_neg(n, SMA_BACK)
    IN  IF n < SMA_LENGTH \/ Max2(0, n - SMA_LENGTH + 1) < 5 THEN "sma_missing"
        ELSE IF sma_isna(f, now) \/ sma_isna(f, prev) THEN "sma_nan"
        ELSE IF RatLT(Rat(f[n].Close, 1), sma(f, now)) THEN "below_sma"
        ELSE IF RatLE(sma(f, now), sma(f, prev)) THEN "sma_not_rising"
        ELSE "ok"

\* Lines 116-138: "ok", or the return that ends the evaluation.
check_tightness(f) ==
    LET recent_df == tail(f, VCP_LOOKBACK_DAYS)
        g == apply_gap_reset_logic(recent_df)
        effective_closes == g.closes
        dynamic_threshold == IF g.is_reset THEN ceil_pct(g.gap_size)
                             ELSE DEFAULT_TIGHTNESS
        max_c == SeqMax(effective_closes, Len(effective_closes))
        min_c == SeqMin(effective_closes, Len(effective_closes))
        current_c == f[Len(f)].Close
        range_pct == Rat(max_c - min_c, current_c)
    IN  IF Len(effective_closes) < MIN_EFFECTIVE THEN "too_short"
        ELSE IF RatGT(range_pct, dynamic_threshold) THEN "too_wide"
        ELSE "ok"

\* Lines 141-143
check_volume(f) ==
    IF RatGE(vol_mean(f, VOL_SHORT), vol_mean(f, VOL_LONG)) THEN "not_contracting"
    ELSE "ok"

\* Line 146
check_liquidity(f) ==
    IF RatLT(vol_mean(f, VOL_SHORT), Rat(MIN_VOLUME_AVG, 1)) THEN "illiquid"
    ELSE "ok"

\* The boolean check_vcp_criteria returns, with the filter whose return
\* statement produced it ("pass" for the final return True).
check_vcp_criteria(f) ==
    IF Len(f) < MIN_BARS THEN [result |-> FALSE, at |-> "len"]
    ELSE IF check_trend(f) # "ok" THEN [result |-> FALSE, at |-> "trend"]
    ELSE IF check_tightness(f) # "ok" THEN [result |-> FALSE, at |-> "tightness"]
    ELSE IF check_volume(f) # "ok" THEN [result |-> FALSE, at |-> "volume"]
    ELSE IF check_liquidity(f) # "ok" THEN [result |-> FALSE, at |-> "liquidity"]
    ELSE [result |-> TRUE, at |-> "pass"]

----------------------------------------------------------------------------
(* diagnose_single_stock (exhaustive)                                       *)

\* Lines 171-187: the two report lines of the trend section
diagnose_trend(f) ==
    LET n == Len(f)
        c_now == Rat(f[n].Close, 1)
        ma60_now == sma(f, iloc_neg(n, 1))
        ma60_prev == sma(f, iloc_neg(n, SMA_BACK))
    IN  [above_sma |-> RatGT(c_now, ma60_now),
         sma_rising |-> RatGT(ma60_now, ma60_prev)]

\* Lines 190-224: the tightness section of the report
diagnose_tightness(f) ==
    LET recent_df == tail(f, VCP_LOOKBACK_DAYS)
        g == apply_gap_reset_logic(recent_df)
        effective_closes == g.closes
        max_c == SeqMax(effective_closes, Len(effective_closes))
        min_c == SeqMin(effective_closes, Len(effective_closes))
        range_pct == Rat(max_c - min_c, f[Len(f)].Close)
        dynamic_threshold == IF g.is_reset THEN ceil_pct(g.gap_size)
                             ELSE DEFAULT_TIGHTNESS
    IN  [is_reset |-> g.is_reset,
         reset_date |-> g.date,
         gap_size |-> g.gap_size,
         days |-> Len(effective_closes),
         range_pct |-> range_pct,
         threshold |-> dynamic_threshold,
         verdict |-> IF Len(effective_closes) < MIN_EFFECTIVE THEN "too_short"
                     ELSE IF RatLE(range_pct, dynamic_threshold) THEN "ok"
                     ELSE "too_wide"]

\* Lines 227-235
diagnose_volume(f) == RatLT(vol_mean(f, VOL_SHORT), vol_mean(f, VOL_LONG))

\* Lines 238-242
diagnose_liquidity(f) == RatGE(vol_mean(f, VOL_SHORT), Rat(MIN_VOLUME_AVG, 1))

\* (is_pass, report); the report is kept as the verdict of each section.
diagnose_single_stock(f0) ==
    LET f == dropna(f0)
    IN  IF Len(f) < MIN_BARS
        THEN [is_pass |-> FALSE, kind |-> "insufficient", bars |-> Len(f)]
        ELSE LET tr == diagnose_trend(f)
                 ti == diagnose_tightness(f)
                 vo == diagnose_volume(f)
                 li == diagnose_liquidity(f)
             IN  [is_pass |-> tr.above_sma /\ tr.sma_rising /\ ti.verdict = "ok"
                              /\ vo /\ li,
                  kind |-> "report", bars |-> Len(f),
                  trend |-> tr, tightness |-> ti, volume |-> vo, liquidity |-> li]

----------------------------------------------------------------------------
(* Input frames of the evaluation: daily bars ending on EndDate, described  *)
(* by a few parameters.  Closes are 1000 except: the newest bar (cLast),    *)
(* one bar of the lookback window (1000 + dev at window position devPos),   *)
(* and the bars older than the current SMA window (cOld).  A bar opens at   *)
(* the previous close, plus dA at window position pA and dB at window       *)
(* position pB (0: no such gap).                                            *)
(* The newest 20 bars trade vNew shares, the older ones vOld.               *)

EndDate == MkDate(2025, 12, 25)

closeAt(p, i) ==
    IF i = p.n THEN p.cLast
    ELSE IF i = p.n - VCP_LOOKBACK_DAYS + p.devPos THEN 1000 + p.dev
    ELSE IF i <= p.n - 60 THEN p.cOld
    ELSE 1000

openAt(p, i) ==
    IF i = 1 THEN closeAt(p, 1)
    ELSE closeAt(p, i - 1)
         + (IF p.pA # 0 /\ i = p.n - VCP_LOOKBACK_DAYS + p.pA THEN p.dA
            ELSE IF p.pB # 0 /\ i = p.n - VCP_LOOKBACK_DAYS + p.pB THEN p.dB
            ELSE 0)

volumeAt(p, i) == IF i > p.n - 20 THEN p.vNew ELSE p.vOld

MkFrame(p, end) ==
    [i \in 1..p.n |-> Bar(DaysBefore(end, p.n - i), openAt(p, i), closeAt(p, i),
                          volumeAt(p, i), TRUE)]

Lens == {2, MIN_BARS - 1} \cup (MIN_BARS .. (MIN_BARS + ExtraBars))

\* trend, volume and liquidity cases
TrendFamily ==
    [n : Lens, cOld : {900, 1000, 1100},
     cLast : {990, 1000, 1010}, dev : {0, -35}, devPos : {5},
     pA : {0, 8}, dA : {43}, pB : {0}, dB : {0},
     vOld : {500000, 600000}, vNew : {499999, 500000, 600000}]

\* lookback-window cases: gaps of 4%, 4.3%, 5% and 7% at every position, an
\* older or newer gap of 9%, ranges on both sides of 3.5%, 5% and 7%
WindowFamily ==
    [n : {MIN_BARS}, cOld : {900},
     cLast : {1000, 1010}, dev : {-75, -51, -50, -45, -36, -35, 0}, devPos : {4, 8},
     pA : 0..VCP_LOOKBACK_DAYS, dA : {40, 43, 50, 70}, pB : {0, 2, 6}, dB : {-90},
     vOld : {600000}, vNew : {500000}]

InputFrames == {MkFrame(p, EndDate) : p \in TrendFamily \cup WindowFamily}

----------------------------------------------------------------------------
(* Evaluation of one frame: the three functions applied to the same input   *)

NoScan ==
    /\ target_date_str = <<>> /\ spc = "idle" /\ target_date = NoDate
    /\ formatted_date = <<>> /\ bi = 0 /\ data = [kind |-> "none"] /\ si = 0
    /\ valid_symbols = <<>> /\ sret = <<>> /\ events = <<>> /\ served = <<>>

NoDiag ==
    /\ symbol_input = <<>> /\ date_str = <<>> /\ dpc = "idle"
    /\ test_symbol = <<>> /\ ddf = [kind |-> "none"] /\ queries = <<>>
    /\ answers = <<>> /\ dret = <<>>

EvalInit ==
    /\ df \in InputFrames
    /\ epc = "input"
    /\ gr = [is_reset |-> FALSE] /\ ff = [result |-> FALSE] /\ ex = [is_pass |-> FALSE]
    /\ NoScan /\ NoDiag

RunGapReset ==
    /\ epc = "input"
    /\ gr' = apply_gap_reset_logic(tail(df, VCP_LOOKBACK_DAYS))
    /\ epc' = "gap"
    /\ UNCHANGED <<df, ff, ex, scanVars, diagVars>>

RunCheck ==
    /\ epc = "gap"
    /\ ff' = check_vcp_criteria(df)
    /\ epc' = "checked"
    /\ UNCHANGED <<df, gr, ex, scanVars, diagVars>>

RunDiagnose ==
    /\ epc = "checked"
    /\ ex' = diagnose_single_stock(df)
    /\ epc' = "evaluated"
    /\ UNCHANGED <<df, gr, ff, scanVars, diagVars>>

EvalNext == RunGapReset \/ RunCheck \/ RunDiagnose

EvalSpec == EvalInit /\ [][EvalNext]_vars

----------------------------------------------------------------------------
(* Reference definitions, written from the statements and not from the      *)
(* code: sets and CHOOSE in place of the loops.                             *)

SetMax(S) == CHOOSE x \in S : \A y \in S : y <= x
SetMin(S) == CHOOSE x \in S : \A y \in S : x <= y

\* overnight gap of session t of window w: |open[t] - close[t-1]| / close[t-1]
GapOf(w, t) == Rat(Abs(w[t].Open - w[t - 1].Close), w[t - 1].Close)

\* sessions of the window, other than its first, whose gap exceeds the threshold
QualifyingGaps(w) ==
    {t \in 2..Len(w) : w[t - 1].Close > 0 /\ RatGT(GapOf(w, t), GAP_THRESHOLD)}

RefWindow(f) == tail(f, VCP_LOOKBACK_DAYS)

\* first session of the effective window
RefStart(w) == IF QualifyingGaps(w) = {} THEN 1 ELSE SetMax(QualifyingGaps(w))

\* the least whole percentage k with k/100 >= q
RefCeilPct(q) ==
    CHOOSE k \in 0..((q.num * 100) \div q.den + 1) :
        k * q.den >= q.num * 100 /\ (k - 1) * q.den < q.num * 100

RefThreshold(w) ==
    IF QualifyingGaps(w) = {} THEN Rat(35, 1000)
    ELSE Rat(RefCeilPct(GapOf(w, RefStart(w))), 100)

RefTightness(f) ==
    LET w == RefWindow(f)
        eff == {w[t].Close : t \in RefStart(w)..Len(w)}
        thr == RefThreshold(w)
    IN  /\ Len(w) - RefStart(w) + 1 >= 3
        /\ (SetMax(eff) - SetMin(eff)) * thr.den <= thr.num * f[Len(f)].Close

\* mean of the 60 closes ending k sessions before the newest one, times 60
RefSmaSum(f, k) ==
    LET n == Len(f) IN SeqSum(Closes(f), n - k - 59, n - k)

Evaluated == epc = "evaluated"

\* C5: apply_gap_reset_logic resets on the most recent qualifying gap of the
\* window (never on its first session), returning the closes from that
\* session on, the flag, that session's date and that gap's magnitude; with
\* no qualifying gap it returns the whole window, FALSE, no date and 0.
C5_MostRecentGap ==
    epc # "input" =>
        LET w == RefWindow(df)
            Q == QualifyingGaps(w)
        IN  IF Q = {}
            THEN gr = [closes |-> Closes(w), is_reset |-> FALSE, date |-> <<>>,
                       gap_size |-> Rat(0, 1)]
            ELSE LET t == SetMax(Q)
                 IN  /\ gr.is_reset
                     /\ gr.closes = [k \in 1..(Len(w) - t + 1) |-> w[t + k - 1].Close]
                     /\ gr.date = strftime(w[t].Date)
                     /\ gr.gap_size = GapOf(w, t)

\* a window with an older, larger qualifying gap and a newer, smaller one
C5_Witness ==
    /\ epc # "input"
    /\ gr.is_reset
    /\ LET w == RefWindow(df)
       IN  \E t1, t2 \in QualifyingGaps(w) :
              /\ t1 < t2
              /\ RatGT(GapOf(w, t1), GapOf(w, t2))
              /\ Len(gr.closes) = Len(w) - t2 + 1

\* C4: in both modes the tightness criterion equals the reference verdict:
\* fail under 3 effective sessions, else pass iff range / close <= threshold,
\* the threshold being 3.5% without a qualifying gap and ceil(g*100)/100
\* (never below g) after a reset on a gap g.
C4_TightnessReference ==
    /\ (epc \in {"checked", "evaluated"} /\ ff.at \notin {"len", "trend"})
          => ((ff.at # "tightness") <=> RefTightness(df))
    /\ (Evaluated /\ ex.kind = "report")
          => /\ (ex.tightness.verdict = "ok") <=> RefTightness(df)
             /\ (ex.tightness.verdict = "too_short")
                   <=> (Len(RefWindow(df)) - RefStart(RefWindow(df)) + 1 < 3)
             /\ RatEQ(ex.tightness.threshold, RefThreshold(RefWindow(df)))
             /\ ex.tightness.is_reset
                   => RatGE(ex.tightness.threshold, ex.tightness.gap_size)

\* C1: the boolean of check_vcp_criteria equals the overall pass flag of
\* diagnose_single_stock on the same (complete-row) series.
C1_ModesAgree == Evaluated => (ff.result = ex.is_pass)

RefTrend(f) ==
    /\ f[Len(f)].Close * 60 > RefSmaSum(f, 0)
    /\ RefSmaSum(f, 0) > RefSmaSum(f, 5)

\* C6: with at least 65 valid sessions the trend criterion passes, in both
\* modes, iff close > SMA-60 and SMA-60 > SMA-60 of 5 sessions ago; with
\* fewer sessions the evaluation fails.
C6_TrendStrict ==
    Evaluated =>
        IF Len(df) >= 65
        THEN /\ (ff.at # "trend") <=> RefTrend(df)
             /\ (ex.trend.above_sma /\ ex.trend.sma_rising) <=> RefTrend(df)
        ELSE ~ff.result /\ ~ex.is_pass

----------------------------------------------------------------------------
(* scan_market                                                              *)

\* get_tw_stock_list(): the universe (an external lookup; a fixed list here)
AllTickers == <<"2330.TW", "2317.TW", "2454.TW", "6488.TWO", "3105.TWO", "1101.TW">>
tickers == SubSeq(AllTickers, 1, NumTickers)

\* date tokens handed to scan_market; <<>> is the absent token
Tokens ==
    { <<>>,
      <<"2", "5", "1", "2", "2", "5">>,     \* 2025-12-25
      <<"2", "5", "1", "2", "2", "4">>,     \* 2025-12-24
      <<"6", "9", "1", "2", "2", "5">>,     \* 1969-12-25
      <<"2", "5", "1", "3", "4", "5">>,     \* month 13
      <<"2", "5", "0", "2", "2", "9">>,     \* 29 February of a common year
      <<"2", "5", "1", "2", "2", "x">> }    \* not a number

\* datetime.now(): the day the scan runs
NowDates == {EndDate, MkDate(2025, 12, 26)}

\* What the provider may hold for one symbol of a batch.
PassingParams ==
    [n |-> MIN_BARS, cOld |-> 900, cLast |-> 1010, dev |-> 0, devPos |-> 5,
     pA |-> 0, dA |-> 0, pB |-> 0, dB |-> 0, vOld |-> 600000, vNew |-> 500000]
FailingParams == [PassingParams EXCEPT !.vNew = 600000]

FramePass == MkFrame(PassingParams, EndDate)
FrameStale == MkFrame(PassingParams, PrevDay(EndDate))
FrameFail == MkFrame(FailingParams, EndDate)
\* the newest row (dated EndDate) is incomplete
FrameNanLast == Append(FrameStale, Bar(EndDate, 1010, 1010, 0, FALSE))
\* every row is incomplete
FrameAllNan == <<Bar(EndDate, 0, 0, 0, FALSE)>>

FrameKinds == {"pass", "stale", "fail", "nan_last", "all_nan"}
Frames ==
    [k \in FrameKinds |->
        CASE k = "pass" -> FramePass
          [] k = "stale" -> FrameStale
          [] k = "fail" -> FrameFail
          [] k = "nan_last" -> FrameNanLast
          [] OTHER -> FrameAllNan]

\* a column group of a downloaded frame: a frame kind, or "missing" when the
\* frame has no columns for the symbol (data[symbol] raises KeyError)
ColumnKinds == FrameKinds \cup {"missing"}

\* tickers[i:i+batch_size] with the 1-based start i
batch_at(i) == SubSeq(tickers, i, Min2(Len(tickers), i + batch_size - 1))

\* yf.download(batch, ...): an exception, an empty frame, or a frame in the
\* two-level layout; a batch of one symbol may also come in the flat layout.
Downloads(batch) ==
    {[kind |-> "exception"], [kind |-> "empty"]}
    \cup {[kind |-> "frame", layout |-> l, cols |-> c] :
            l \in (IF Len(batch) = 1 THEN {"multi", "flat"} ELSE {"multi"}),
            c \in [{batch[k] : k \in 1..Len(batch)} -> ColumnKinds]}

\* (variant: no comparison of the last bar's date with the scan date)
process_symbol_any_date(d, symbol, tdate) ==
    /\ d.layout = "multi"
    /\ d.cols[symbol] # "missing"
    /\ dropna(Frames[d.cols[symbol]]) # <<>>
    /\ check_vcp_criteria(dropna(Frames[d.cols[symbol]])).result

\* Lines 273-289, one pass of the symbol loop: TRUE iff the symbol is
\* appended to valid_symbols.  A KeyError is caught at line 288.
process_symbol(d, symbol, tdate) ==
    IF d.layout = "multi"
    THEN IF d.cols[symbol] = "missing" THEN FALSE
         ELSE LET f == dropna(Frames[d.cols[symbol]])
              IN  IF f = <<>> THEN FALSE
                  ELSE IF f[Len(f)].Date # tdate THEN FALSE
                  ELSE check_vcp_criteria(f).result
    ELSE FALSE

\* history: the facts about the series the provider returned for a symbol
Unseen == [present |-> FALSE, fresh |-> FALSE, passes |-> FALSE]
Facts(d, symbol, tdate) ==
    IF d.cols[symbol] = "missing" THEN Unseen
    ELSE LET f == dropna(Frames[d.cols[symbol]])
         IN  [present |-> TRUE,
              fresh |-> f # <<>> /\ f[Len(f)].Date = tdate,
              passes |-> f # <<>> /\ check_vcp_criteria(f).result]

NoEval ==
    /\ df = <<>> /\ epc = "idle"
    /\ gr = [is_reset |-> FALSE] /\ ff = [result |-> FALSE] /\ ex = [is_pass |-> FALSE]

ScanInit ==
    /\ target_date_str \in Tokens
    /\ spc = "start"
    /\ target_date = NoDate /\ formatted_date = <<>>
    /\ bi = 0 /\ data = [kind |-> "none"] /\ si = 0
    /\ valid_symbols = <<>> /\ sret = <<>> /\ events = <<>>
    /\ served = [k \in 1..Len(tickers) |-> Unseen]
    /\ NoEval /\ NoDiag

\* the return of the outer handler (lines 299-301)
scan_fatal == <<<<>>, target_date_str>>

\* Lines 249-263: resolve the date, fetch the universe, start the loop.
ScanResolveDate ==
    /\ spc = "start"
    /\ \/ /\ target_date_str # <<>>
          /\ strptime(target_date_str).ok
          /\ target_date' = strptime(target_date_str).date
          /\ formatted_date' = strftime(target_date')
          /\ spc' = "loop" /\ bi' = 1 /\ sret' = sret
       \/ /\ target_date_str # <<>>
          /\ ~strptime(target_date_str).ok
          /\ sret' = scan_fatal
          /\ spc' = "done"
          /\ UNCHANGED <<target_date, formatted_date, bi>>
       \/ /\ target_date_str = <<>>
          /\ \E now \in NowDates : target_date' = now
          /\ formatted_date' = strftime(target_date')
          /\ spc' = "loop" /\ bi' = 1 /\ sret' = sret
    /\ UNCHANGED <<target_date_str, data, si, valid_symbols, events, served>>
    /\ UNCHANGED <<evalVars, diagVars>>

\* Lines 265-270 and 293-295: download the next batch.  An exception and an
\* empty frame both move on to the next batch at once.
ScanFetchBatch ==
    /\ spc = "loop"
    /\ bi <= Len(tickers)
    /\ \E d \in Downloads(batch_at(bi)) :
          /\ events' = Append(events, "fetch")
          /\ IF d.kind = "frame"
             THEN data' = d /\ si' = 1 /\ spc' = "symbols" /\ bi' = bi
             ELSE data' = [kind |-> "none"] /\ si' = 0 /\ spc' = "loop"
                  /\ bi' = bi + batch_size
    /\ UNCHANGED <<target_date_str, target_date, formatted_date, valid_symbols,
                   sret, served>>
    /\ UNCHANGED <<evalVars, diagVars>>

\* Lines 272-289: one symbol of the batch.
ScanProcessSymbol ==
    /\ spc = "symbols"
    /\ si <= Len(batch_at(bi))
    /\ LET symbol == batch_at(bi)[si]
       IN  /\ valid_symbols' = IF process_symbol(data, symbol, target_date)
                               THEN Append(valid_symbols, symbol)
                               ELSE valid_symbols
           /\ served' = [served EXCEPT ![bi + si - 1] = Facts(data, symbol, target_date)]
    /\ si' = si + 1
    /\ UNCHANGED <<target_date_str, spc, target_date, formatted_date, bi, data,
                   sret, events>>
    /\ UNCHANGED <<evalVars, diagVars>>

\* Line 291: the pause after the symbol loop, then the next batch.
ScanSleep ==
    /\ spc = "symbols"
    /\ si > Len(batch_at(bi))
    /\ events' = events \o <<"symbols", "pause">>
    /\ bi' = bi + batch_size
    /\ data' = [kind |-> "none"] /\ si' = 0
    /\ spc' = "loop"
    /\ UNCHANGED <<target_date_str, target_date, formatted_date, valid_symbols,
                   sret, served>>
    /\ UNCHANGED <<evalVars, diagVars>>

\* Line 297
ScanReturn ==
    /\ spc = "loop"
    /\ bi > Len(tickers)
    /\ sret' = <<valid_symbols, formatted_date>>
    /\ spc' = "done"
    /\ UNCHANGED <<target_date_str, target_date, formatted_date, bi, data, si,
                   valid_symbols, events, served>>
    /\ UNCHANGED <<evalVars, diagVars>>

ScanNext ==
    ScanResolveDate \/ ScanFetchBatch \/ ScanProcessSymbol \/ ScanSleep \/ ScanReturn

ScanSpec == ScanInit /\ [][ScanNext]_vars

----------------------------------------------------------------------------
(* Statements about scan_market                                             *)

InList(x, l) == \E k \in 1..Len(l) : l[k] = x
TickerIndex(sym) == CHOOSE i \in 1..Len(tickers) : tickers[i] = sym

\* the series of ticker i was returned, ends on the scan date and passes
Obtainable(i) == served[i].present /\ served[i].fresh /\ served[i].passes

\* C2: every symbol of the result list had a last complete bar dated
\* exactly ScanDate; a stale symbol is never in the list.
C2_OnlyScanDateSymbols ==
    /\ \A k \in 1..Len(valid_symbols) : served[TickerIndex(valid_symbols[k])].fresh
    /\ spc = "done" /\ target_date # NoDate
          => \A i \in 1..Len(tickers) :
                ~served[i].fresh => ~InList(tickers[i], sret[1])

\* a finished scan that returned a symbol and left out a stale one whose
\* series passes the four filters
C2_Witness ==
    /\ spc = "done" /\ target_date # NoDate
    /\ Len(sret[1]) > 0
    /\ \E i \in 1..Len(tickers) :
          /\ served[i].present /\ served[i].passes /\ ~served[i].fresh
          /\ ~InList(tickers[i], sret[1])

\* C3: whatever fails, the finished scan returns every symbol of a fetched
\* batch whose processing raised nothing, whose last bar is dated ScanDate
\* and which passes the fail-fast evaluator.
C3_ObtainableResultsReturned ==
    spc = "done" /\ target_date # NoDate
        => /\ Len(sret) = 2
           /\ \A i \in 1..Len(tickers) : Obtainable(i) => InList(tickers[i], sret[1])

\* C7: in either column layout, a processed symbol with complete data ending
\* on ScanDate that passes the four filters is in the result list.
C7_EitherLayoutIncluded ==
    spc = "symbols" /\ data.layout \in {"flat", "multi"}
        => \A k \in 1..(si - 1) :
              Obtainable(bi + k - 1) => InList(tickers[bi + k - 1], valid_symbols)

\* text YYYY-MM-DD spelling the date dt
IsCanonicalFor(t, dt) ==
    /\ Len(t) = 10
    /\ t[5] = "-" /\ t[8] = "-"
    /\ \A k \in {1, 2, 3, 4, 6, 7, 9, 10} : IsDigit(t[k])
    /\ DigitVal(t[1]) * 1000 + DigitVal(t[2]) * 100 + DigitVal(t[3]) * 10
           + DigitVal(t[4]) = dt.y
    /\ DigitVal(t[6]) * 10 + DigitVal(t[7]) = dt.m
    /\ DigitVal(t[9]) * 10 + DigitVal(t[10]) = dt.d

\* text YYYY-MM-DD spelling some calendar date
IsCanonicalDate(t) ==
    /\ Len(t) = 10
    /\ t[5] = "-" /\ t[8] = "-"
    /\ \A k \in {1, 2, 3, 4, 6, 7, 9, 10} : IsDigit(t[k])
    /\ DigitVal(t[6]) * 10 + DigitVal(t[7]) \in 1..12
    /\ DigitVal(t[9]) * 10 + DigitVal(t[10]) \in 1..31

\* a token of six digits naming a month 01..12 and a day of that month
RefParseable(t) ==
    /\ Len(t) = 6
    /\ \A k \in 1..6 : IsDigit(t[k])
    /\ LET yy == DigitVal(t[1]) * 10 + DigitVal(t[2])
           mm == DigitVal(t[3]) * 10 + DigitVal(t[4])
           dd == DigitVal(t[5]) * 10 + DigitVal(t[6])
       IN  /\ mm >= 1 /\ mm <= 12 /\ dd >= 1
           /\ dd <= DaysInMonth((IF yy >= 69 THEN 1900 ELSE 2000) + yy, mm)

\* the token respelled: century, then yy-mm-dd
RefRespelled(t) ==
    (IF DigitVal(t[1]) * 10 + DigitVal(t[2]) >= 69 THEN <<"1", "9">> ELSE <<"2", "0">>)
    \o <<t[1], t[2], "-", t[3], t[4], "-", t[5], t[6]>>

\* C9 as stated: every completion returns the canonical YYYY-MM-DD string
\* of the resolved ScanDate as second component.
C9_AlwaysCanonicalDate ==
    spc = "done" => Len(sret) = 2 /\ IsCanonicalDate(sret[2])

\* C9 as amended: with an absent or parseable token the second component is
\* the canonical string of the resolved date, whatever fails during the
\* scan; with an unparseable token the scan returns the empty list and the
\* token itself.
C9_CanonicalDateOrRawToken ==
    spc = "done" =>
        /\ Len(sret) = 2
        /\ IF target_date_str = <<>>
           THEN target_date \in NowDates /\ IsCanonicalFor(sret[2], target_date)
           ELSE IF RefParseable(target_date_str)
                THEN /\ sret[2] = RefRespelled(target_date_str)
                     /\ IsCanonicalFor(sret[2], target_date)
                ELSE sret = <<<<>>, target_date_str>>

\* a scan with a parseable token in which a batch failed and another
\* produced a result
C9_Witness ==
    /\ spc = "done"
    /\ target_date_str # <<>> /\ RefParseable(target_date_str)
    /\ Len(sret[1]) > 0
    /\ \E i \in 1..(Len(events) - 1) : events[i] = "fetch" /\ events[i + 1] = "fetch"
    /\ IsCanonicalDate(sret[2])

\* C10: every fetch after the first directly follows the pause that ends
\* the previous batch, whatever that batch's outcome.
C10_PauseBeforeEveryFetch ==
    \A i \in 2..Len(events) : events[i] = "fetch" => events[i - 1] = "pause"

----------------------------------------------------------------------------
(* fetch_and_diagnose                                                       *)

\* str.upper on the letters the identifiers use
LowerCase == <<"t", "w", "o">>
UpperCase == <<"T", "W", "O">>
upper_chr(c) ==
    IF \E k \in 1..Len(LowerCase) : LowerCase[k] = c
    THEN UpperCase[CHOOSE k \in 1..Len(LowerCase) : LowerCase[k] = c]
    ELSE c
upper(t) == [k \in 1..Len(t) |-> upper_chr(t[k])]

\* str.strip
RECURSIVE lstrip(_)
lstrip(t) == IF t # <<>> /\ t[1] = " " THEN lstrip(Tail(t)) ELSE t
RECURSIVE rstrip(_)
rstrip(t) ==
    IF t # <<>> /\ t[Len(t)] = " " THEN rstrip(SubSeq(t, 1, Len(t) - 1)) ELSE t
strip(t) == rstrip(lstrip(t))

\* str.endswith
endswith(t, suf) ==
    Len(t) >= Len(suf) /\ SubSeq(t, Len(t) - Len(suf) + 1, Len(t)) = suf

DOT_TW == <<".", "T", "W">>
DOT_TWO == <<".", "T", "W", "O">>

\* line 311
normalized(sym_in) == strip(upper(sym_in))
\* the test of lines 312 and 320
has_suffix(symbol) == endswith(symbol, DOT_TW) \/ endswith(symbol, DOT_TWO)
\* lines 312-315
first_symbol(symbol) == IF ~has_suffix(symbol) THEN symbol \o DOT_TW ELSE symbol

\* (variant: the retry does not look at the first response)
needs_retry_always(resp, symbol) == ~has_suffix(symbol)

\* line 320: df.empty and no suffix was given
needs_retry(resp, symbol) == resp.kind = "empty" /\ ~has_suffix(symbol)

SymbolInputs ==
    { <<"2", "3", "3", "0">>,
      <<" ", "6", "4", "8", "8", " ">>,
      <<"2", "3", "3", "0", ".", "T", "W">>,
      <<"6", "4", "8", "8", ".", "t", "w", "o">>,
      <<"2", "3", "3", "0", ".", "t", "w", " ">> }

DiagTokens ==
    { <<"2", "5", "1", "2", "2", "5">>,
      <<"2", "5", "1", "2", "2", "4">>,
      <<"2", "5", "1", "3", "4", "5">> }

\* yf.download(test_symbol, ...): an exception, an empty frame, or a frame
\* in either column layout, with or without all five required columns
DiagDownloads ==
    {[kind |-> "exception"], [kind |-> "empty"]}
    \cup {[kind |-> "frame", layout |-> l, columns_ok |-> c, rows |-> k] :
            l \in {"multi", "flat"}, c \in BOOLEAN, k \in FrameKinds}

answer_of(resp) == IF resp.kind = "frame" THEN "data" ELSE resp.kind

\* the return of the handler of lines 351-353
diag_error == <<FALSE, [kind |-> "internal_error"], date_str>>

\* Lines 325-349: from the last response to the returned triple.  Both
\* layouts are reduced to the field names (lines 328-331).
diag_result(resp, sym_in, tsym, tdate) ==
    LET fd == strftime(tdate)
    IN  IF resp.kind = "empty"
        THEN <<FALSE, [kind |-> "not_found", symbol |-> sym_in], fd>>
        ELSE IF ~resp.columns_ok
        THEN <<FALSE, [kind |-> "columns_missing"], fd>>
        ELSE LET f == dropna(Frames[resp.rows])
             IN  IF f = <<>> THEN <<FALSE, [kind |-> "no_valid_data"], fd>>
                 ELSE IF f[Len(f)].Date # tdate
                 THEN <<FALSE, [kind |-> "date_mismatch", requested |-> fd,
                                actual |-> f[Len(f)].Date], fd>>
                 ELSE LET r == diagnose_single_stock(f)
                      IN  <<r.is_pass,
                            [kind |-> "report", symbol |-> tsym, date |-> fd,
                             body |-> r], fd>>

DiagInit ==
    /\ symbol_input \in SymbolInputs
    /\ date_str \in DiagTokens
    /\ dpc = "start"
    /\ test_symbol = <<>> /\ ddf = [kind |-> "none"]
    /\ queries = <<>> /\ answers = <<>> /\ dret = <<>>
    /\ NoEval /\ NoScan

\* Lines 305-318: parse the date, build the first identifier, download it.
DiagFirstDownload ==
    /\ dpc = "start"
    /\ \/ /\ ~strptime(date_str).ok
          /\ dret' = diag_error /\ dpc' = "done"
          /\ UNCHANGED <<test_symbol, ddf, queries, answers>>
       \/ /\ strptime(date_str).ok
          /\ test_symbol' = first_symbol(normalized(symbol_input))
          /\ queries' = <<test_symbol'>>
          /\ \E resp \in DiagDownloads :
                /\ ddf' = resp
                /\ answers' = <<answer_of(resp)>>
                /\ IF resp.kind = "exception"
                   THEN dret' = diag_error /\ dpc' = "done"
                   ELSE dret' = dret /\ dpc' = "fetched"
    /\ UNCHANGED <<symbol_input, date_str>>
    /\ UNCHANGED <<evalVars, scanVars>>

\* Lines 320-323: the second download.
DiagRetry ==
    /\ dpc = "fetched"
    /\ needs_retry(ddf, normalized(symbol_input))
    /\ test_symbol' = normalized(symbol_input) \o DOT_TWO
    /\ queries' = Append(queries, test_symbol')
    /\ \E resp \in DiagDownloads :
          /\ ddf' = resp
          /\ answers' = Append(answers, answer_of(resp))
          /\ IF resp.kind = "exception"
             THEN dret' = diag_error /\ dpc' = "done"
             ELSE dret' = dret /\ dpc' = "retried"
    /\ UNCHANGED <<symbol_input, date_str>>
    /\ UNCHANGED <<evalVars, scanVars>>

\* Lines 325-349
DiagFinish ==
    /\ \/ dpc = "fetched" /\ ~needs_retry(ddf, normalized(symbol_input))
       \/ dpc = "retried"
    /\ dret' = diag_result(ddf, symbol_input, test_symbol, strptime(date_str).date)
    /\ dpc' = "done"
    /\ UNCHANGED <<symbol_input, date_str, test_symbol, ddf, queries, answers>>
    /\ UNCHANGED <<evalVars, scanVars>>

DiagNext == DiagFirstDownload \/ DiagRetry \/ DiagFinish

DiagSpec == DiagInit /\ [][DiagNext]_vars

----------------------------------------------------------------------------
(* Statements about fetch_and_diagnose                                      *)

\* the request names no exchange suffix
Bare(sym_in) == \A k \in 1..Len(sym_in) : sym_in[k] # "."
\* its code, without the surrounding blanks
CodeOf(sym_in) == SelectSeq(sym_in, LAMBDA c : c # " ")

\* C8: for a symbol given without suffix, the .TW identifier is queried
\* first; the .TWO identifier is queried iff the .TW query returned no data,
\* and after it; not-found (pass = FALSE) is returned exactly when both
\* queries came back empty; with data for .TW the report names .TW.
C8_PrimaryThenSecondary ==
    Bare(symbol_input) =>
        LET primary == CodeOf(symbol_input) \o <<".", "T", "W">>
            secondary == CodeOf(symbol_input) \o <<".", "T", "W", "O">>
        IN  /\ Len(queries) <= 2 /\ Len(answers) = Len(queries)
            /\ Len(queries) >= 1 => queries[1] = primary
            /\ Len(queries) = 2 => answers[1] = "empty" /\ queries[2] = secondary
            /\ dpc = "done" =>
                  /\ (Len(queries) = 2) <=> (Len(answers) >= 1 /\ answers[1] = "empty")
                  /\ (dret[2].kind = "not_found")
                        <=> (Len(answers) = 2 /\ answers[1] = "empty"
                             /\ answers[2] = "empty")
                  /\ dret[2].kind = "not_found" => dret[1] = FALSE
                  /\ (Len(answers) >= 1 /\ answers[1] = "data")
                        => /\ queries = <<primary>>
                           /\ dret[2].kind = "report" => dret[2].symbol = primary

\* no data under .TW, data under .TWO, and a report for the .TWO identifier
C8_Witness ==
    /\ Bare(symbol_input)
    /\ dpc = "done"
    /\ answers = <<"empty", "data">>
    /\ dret[2].kind = "report"
    /\ dret[2].symbol = CodeOf(symbol_input) \o <<".", "T", "W", "O">>

====
